---- MODULE Spec2Model ----
(***************************************************************************)
(* EPDTools: the serial transfer session (models/serial.py), the callers   *)
(* that drive it (main.py, the example under serial.py's __main__) and the *)
(* plane encoder (models/ImgProcesser.py).                                 *)
(*                                                                         *)
(* Byte strings are sequences: plane data and writes are sequences of      *)
(* byte values 0..255, receiver output is a sequence of one-character      *)
(* strings.                                                                *)
(***************************************************************************)
EXTENDS Integers, Sequences, FiniteSets, TLC

\* ------------------------------------------------------------------ bounds
\* Chunks per plane that the enumerated plane data reaches.
MaxChunks == 2
\* Length of a response wait, in polls of 0.1 s (self.timeout / 0.1).
TimeoutTicks == 2
\* Messages a receiver that writes at will sends during one session.
MaxMsgs == 4
\* Width and height of the images given to the encoder.
MaxDim == 9
\* Diffusions that lead to a pixel, in the images dithered at every gray level.
MaxDepth == 3

\* ------------------------------------------------------- program constants
\* The framing unit of _send_data_with_checksum.
ChunkLen == 16
\* checksum = sum(chunk) & 0xFFFF
ChecksumMod == 65536

\* b"Beg\n\r"
Marker == <<66, 101, 103, 10, 13>>
\* "OK".encode()
OK == <<"O", "K">>

\* ------------------------------------------------------------ byte strings
Digits == <<"0", "1", "2", "3", "4", "5", "6", "7", "8", "9">>

\* str(n) for n >= 0: the decimal digits, most significant first.
RECURSIVE str(_)
str(n) == IF n < 10 THEN <<Digits[n + 1]>>
          ELSE str(n \div 10) \o <<Digits[(n % 10) + 1]>>

\* sum(chunk)
RECURSIVE sum(_)
sum(s) == IF s = <<>> THEN 0 ELSE Head(s) + sum(Tail(s))

\* sum(chunk) & 0xFFFF
checksum(chunk) == sum(chunk) % ChecksumMod

\* Python's `needle in hay` on bytes.
Contains(hay, needle) ==
    \E i \in 0..(Len(hay) - Len(needle)) :
        SubSeq(hay, i + 1, i + Len(needle)) = needle

\* data[a:b], clipped to the data as Python slices are.
Slice(data, a, b) ==
    SubSeq(data, a + 1, IF b < Len(data) THEN b ELSE Len(data))

\* ------------------------------------------------------------- the inputs
\* The byte the i-th chunk of a plane is filled with: 0xFF (checksum 4080)
\* for the odd chunks, 0x00 (checksum 0) for the even ones.
ChunkByte(i) == IF i % 2 = 1 THEN 255 ELSE 0
\* Lengths of a trailing partial chunk, 0 for none.
TailLens == {0, 8}

RECURSIVE Fill(_, _)
Fill(b, n) == IF n = 0 THEN <<>> ELSE <<b>> \o Fill(b, n - 1)

RECURSIVE Concat(_)
Concat(ss) == IF ss = <<>> THEN <<>> ELSE Head(ss) \o Concat(Tail(ss))

\* Plane data: up to MaxChunks whole chunks, then an optional partial one.
Planes ==
    { Concat([i \in 1..k |-> Fill(ChunkByte(i), ChunkLen)]) \o Fill(0, t) :
        <<k, t>> \in (0..MaxChunks) \X TailLens }

\* What a receiver that writes at will sends: the halves of "OK", the
\* checksums of the chunks, in any order and number.
RxMsgs == { <<"O">>, <<"K">>, <<"0">>, <<"4", "0", "8", "0">> }

Receivers == {"silent", "correct", "once", "arbitrary"}

\* The two programs that drive a SerialPort: main.py's main(), and the
\* example under serial.py's __main__ (a caller of open / send_img_data /
\* close with plane data of its own).
Callers == {"main", "serial"}

\* main.py's dither_methods.
DitherMethods == {"_black_white_dither", "_red_white_dither", "_red_black_white_dither"}

\* The parameters ImgProcesser.modulate_brw declares, self aside.
modulate_brw_params == {"img", "need_preview"}

\* The arguments main() calls modulate_brw with: one positional (img) and
\* two by keyword.
main_call_positional == 1
main_call_keywords == {"need_preview", "dither_mode"}

\* Python's binding of a call's arguments to a function's parameters: a
\* keyword that names no parameter raises TypeError.
Binds(npos, keywords, params) ==
    /\ keywords \subseteq params
    /\ npos + Cardinality(keywords) <= Cardinality(params)

VARIABLES
    caller,     \* which program runs
    dither_method, \* main(): the selected Dithering method
    dithered,   \* main(): a dithering pass has succeeded
    satisfied,  \* main(): the user has accepted the preview
    tried_open, \* a SerialPort was created and open() called
    pc,         \* position of the caller / of send_img_data
    ser_open,   \* self.ser is set and self.ser.is_open
    bw_data,    \* argument of send_img_data
    rw_data,    \* argument of send_img_data
    plane,      \* what is being sent: "hs" (marker), "bw", "rw"
    sent,       \* _send_data_with_checksum's counter
    expected,   \* _check_response's argument
    elapsed,    \* polls slept in the current wait
    rx,         \* the link's input buffer (ser.in_waiting bytes)
    wire,       \* every write on the link, in order
    result,     \* send_img_data's outcome: "none", "True", "False", "raised"
    receiver,   \* the receiver's behaviour
    replied,    \* messages the receiver has sent
    accum,      \* bytes read during the current wait, in arrival order
    pending,    \* bytes the input buffer held when the wait's write was made,
                \* until the wait's first poll reads them
    acks,       \* the waits that succeeded, in order
    failed,     \* first failure of the call: "none" or its kind
    img,        \* the image given to modulate_brw: rows of BGR pixels
    out,        \* what modulate_brw returned
    gray,       \* the grayscale image given to a Dithering method
    fs_img,     \* _floyd_steinberg's working copy `img`, in units of 1 / Scale
    img_float,  \* _red_black_white_dither's working copy, in units of 1 / RbwUnit
    output,     \* the dithering method's output image: rows of BGR pixels
    pos,        \* pixels the dithering loop has been through, in raster order
    loop        \* the locals of the loop's last iteration

\* The variables of a Dithering method.
dithervars == <<gray, fs_img, img_float, output, pos, loop>>

vars == <<caller, dither_method, dithered, satisfied, tried_open, pc, ser_open,
          bw_data, rw_data, plane, sent, expected, elapsed, rx, wire, result,
          receiver, replied, accum, pending, acks, failed, img, out, dithervars>>

data_of(p) == IF p = "bw" THEN bw_data ELSE rw_data

\* The variables of main() and of the caller, which the session leaves alone.
mainvars == <<caller, dither_method, dithered, satisfied, img, out, dithervars>>

\* modulate_brw has not run.
NoOutput == [bw_data |-> <<>>, rw_data |-> <<>>, width |-> 0, height |-> 0]

\* No iteration of a dithering loop has run.
NoLoop == [x |-> -1, y |-> -1]

\* No Dithering method is running.
NoDither ==
    /\ gray = <<>>
    /\ fs_img = <<>>
    /\ img_float = <<>>
    /\ output = <<>>
    /\ pos = 0
    /\ loop = NoLoop

Init ==
    /\ caller \in Callers
    /\ dither_method \in (IF caller = "main" THEN DitherMethods ELSE {"none"})
    /\ dithered = FALSE
    /\ satisfied = FALSE
    /\ tried_open = FALSE
    /\ pc = IF caller = "main" THEN "main_load" ELSE "open"
    /\ ser_open = FALSE
    /\ IF caller = "main"
       THEN bw_data = <<>> /\ rw_data = <<>>
       ELSE bw_data \in Planes /\ rw_data \in Planes
    /\ plane = "hs"
    /\ sent = 0
    /\ expected = <<>>
    /\ elapsed = 0
    /\ rx = <<>>
    /\ wire = <<>>
    /\ result = "none"
    /\ receiver \in (IF caller = "main" THEN {"silent"} ELSE Receivers)
    /\ replied = 0
    /\ accum = <<>>
    /\ pending = 0
    /\ acks = <<>>
    /\ failed = "none"
    /\ img = <<>>
    /\ out = NoOutput
    /\ NoDither

\* ------------------------------------------------------------ SerialPort
\* ser.write(data): the counts it may return. A blocking write returns
\* len(data); the code also provides for a smaller count.
WriteCounts(data) == {Len(data)} \cup {n \in {0, 8} : n < Len(data)}

\* A close that leaves the link as it is.
close_noop(is_open) == is_open

\* SerialPort.close: closes the link when there is an open one.
close(is_open) == IF is_open THEN FALSE ELSE is_open

\* A return from send_img_data (or an exception leaving it): the caller goes
\* on to its finally clause.
Return(res) ==
    /\ result' = res
    /\ pc' = "finally"

\* The first failure of the call is kept, later ones do not replace it.
FirstFailure(why) == IF failed = "none" THEN why ELSE failed

\* SerialPort.open: serial.Serial(...) succeeds or raises SerialException.
open ==
    /\ pc = "open"
    /\ \E ok \in BOOLEAN :
        /\ ser_open' = ok
        /\ pc' = IF ok THEN "send_img_data" ELSE "done"
    /\ tried_open' = TRUE
    /\ UNCHANGED <<mainvars, bw_data, rw_data, plane, sent, expected, elapsed, rx, wire,
                   result, receiver, replied, accum, pending, acks, failed>>

\* _check_response's first line: the deadline is set, nothing is read yet,
\* and what the input buffer holds arrived before the write just made.
BeginWait(exp) ==
    /\ expected' = exp
    /\ elapsed' = 0
    /\ accum' = <<>>
    /\ pending' = Len(rx)
    /\ pc' = "check_response"

\* One write on the link: n of the bytes of data go out.
Written(p, off, data, n) ==
    Append(wire, [plane |-> p, off |-> off, want |-> Len(data),
                  data |-> SubSeq(data, 1, n)])

\* send_img_data up to _send_and_check's write of the marker, whose count
\* is not looked at.
send_img_data ==
    /\ pc = "send_img_data"
    /\ IF ~ser_open
       THEN /\ Return("False")
            /\ failed' = FirstFailure("not_open")
            /\ UNCHANGED <<wire, expected, elapsed, accum, pending>>
       ELSE \/ \E n \in WriteCounts(Marker) :
                /\ wire' = Written("hs", 0, Marker, n)
                /\ BeginWait(OK)
                /\ UNCHANGED <<result, failed>>
            \/ /\ Return("raised")
               /\ failed' = FirstFailure("exception")
               /\ UNCHANGED <<wire, expected, elapsed, accum, pending>>
    /\ plane' = "hs"
    /\ UNCHANGED <<mainvars, tried_open, ser_open, bw_data, rw_data, sent, rx, receiver,
                   replied, acks>>

\* `if self.ser.in_waiting: ... if expected in response`
response_matches(response, exp) ==
    response # <<>> /\ Contains(response, exp)

\* A deadline that has passed when the wait begins.
within_timeout_never(e) == e < 0

\* `while time.time() < timeout`, the deadline being self.timeout after the
\* wait began.
within_timeout(e) == e < TimeoutTicks

\* A counter that steps over every other chunk.
next_sent_skip(s) == s + 2 * ChunkLen

\* sent += 16
next_sent(s) == s + ChunkLen

\* Callers that go on whatever _check_response returned.
AfterWait_unchecked(ok) ==
    IF plane = "hs"
    THEN /\ plane' = "bw"
         /\ pc' = "send_data_with_checksum"
         /\ UNCHANGED <<sent, result>>
    ELSE /\ sent' = next_sent(sent)
         /\ pc' = "chunk_loop"
         /\ UNCHANGED <<plane, result>>

\* What the callers of _check_response do with its result: send_img_data
\* after the handshake, _send_data_with_checksum after a chunk.
AfterWait(ok) ==
    IF ~ok
    THEN /\ Return("False")
         /\ UNCHANGED <<plane, sent>>
    ELSE IF plane = "hs"
    THEN /\ plane' = "bw"
         /\ pc' = "send_data_with_checksum"
         /\ UNCHANGED <<sent, result>>
    ELSE /\ sent' = next_sent(sent)
         /\ pc' = "chunk_loop"
         /\ UNCHANGED <<plane, result>>

\* A sleep that takes no time.
slept_none(e) == e

\* time.sleep(0.1): the time into the wait after one more poll.
slept(e) == e + 1

\* _check_response: one pass of the polling loop, the timeout, or an
\* exception from the link (in_waiting / read). Its locals end with it;
\* elapsed is kept after a timeout, where it is the whole wait.
check_response ==
    /\ pc = "check_response"
    /\ \/ /\ within_timeout(elapsed)
          /\ rx' = <<>>
          /\ IF response_matches(rx, expected)
             THEN /\ acks' = Append(acks, plane)
                  /\ AfterWait(TRUE)
                  /\ accum' = <<>>
                  /\ elapsed' = 0
                  /\ UNCHANGED failed
             ELSE /\ elapsed' = slept(elapsed)
                  /\ accum' = accum \o rx
                  /\ UNCHANGED <<pc, plane, sent, result, acks, failed>>
       \/ /\ ~within_timeout(elapsed)
          /\ failed' = FirstFailure(IF plane = "hs" THEN "handshake" ELSE "checksum")
          /\ AfterWait(FALSE)
          /\ accum' = <<>>
          /\ UNCHANGED <<rx, elapsed, acks>>
       \/ /\ within_timeout(elapsed)
          /\ failed' = FirstFailure("exception")
          /\ Return("raised")
          /\ accum' = <<>>
          /\ elapsed' = 0
          /\ UNCHANGED <<rx, acks, plane, sent>>
    /\ pending' = 0
    /\ UNCHANGED <<mainvars, tried_open, ser_open, bw_data, rw_data, expected, wire,
                   receiver, replied>>

\* No check of the length.
length_ok_always(total_len) == TRUE

\* `if total_len % 16 != 0: return False`
length_ok(total_len) == total_len % ChunkLen = 0

\* _send_data_with_checksum up to its loop.
send_data_with_checksum ==
    /\ pc = "send_data_with_checksum"
    /\ IF ~length_ok(Len(data_of(plane)))
       THEN /\ Return("False")
            /\ failed' = FirstFailure("length")
            /\ UNCHANGED sent
       ELSE /\ sent' = 0
            /\ pc' = "chunk_loop"
            /\ UNCHANGED <<result, failed>>
    /\ UNCHANGED <<mainvars, tried_open, ser_open, bw_data, rw_data, plane, expected,
                   elapsed, rx, wire, receiver, replied, accum, pending, acks>>

\* A check that only something was written.
write_ok_nonzero(n) == n > 0

\* `if self.ser.write(chunk) != 16`
write_ok(n) == n = ChunkLen

\* The loop of _send_data_with_checksum: the write of the next chunk, or
\* the end of the plane; send_img_data then goes on to the next plane or
\* returns True.
chunk_loop ==
    /\ pc = "chunk_loop"
    /\ LET data == data_of(plane)
           chunk == Slice(data, sent, sent + ChunkLen)
       IN  IF sent < Len(data)
           THEN \/ \E n \in WriteCounts(chunk) :
                    /\ wire' = Written(plane, sent, chunk, n)
                    /\ IF write_ok(n)
                       THEN /\ BeginWait(str(checksum(chunk)))
                            /\ UNCHANGED <<result, failed>>
                       ELSE /\ Return("False")
                            /\ failed' = FirstFailure("short_write")
                            /\ UNCHANGED <<expected, elapsed, accum, pending>>
                    /\ UNCHANGED plane
                \/ /\ Return("raised")
                   /\ failed' = FirstFailure("exception")
                   /\ UNCHANGED <<wire, expected, elapsed, accum, pending, plane>>
           ELSE /\ IF plane = "bw"
                   THEN /\ plane' = "rw"
                        /\ pc' = "send_data_with_checksum"
                        /\ UNCHANGED result
                   ELSE /\ Return("True")
                        /\ UNCHANGED plane
                /\ UNCHANGED <<wire, expected, elapsed, accum, pending, failed>>
    /\ UNCHANGED <<mainvars, tried_open, ser_open, bw_data, rw_data, sent, rx, receiver,
                   replied, acks>>

\* The caller's `finally: ser.close()`.
finally_close ==
    /\ pc = "finally"
    /\ ser_open' = close(ser_open)
    /\ rx' = IF ser_open' THEN rx ELSE <<>>
    /\ pc' = "done"
    /\ UNCHANGED <<mainvars, tried_open, bw_data, rw_data, plane, sent, expected,
                   elapsed, wire, result, receiver, replied, accum, pending, acks,
                   failed>>

\* ------------------------------------------------------------ ImgProcesser
\* Pixels are BGR triples, as OpenCV holds them.
White == <<255, 255, 255>>
Black == <<0, 0, 0>>
Red == <<0, 0, 255>>
\* A colour of no palette.
Grey == <<128, 128, 128>>

Colours == {White, Black, Red, Grey}

\* img.shape[0], img.shape[1]
Height(im) == Len(im)
Width(im) == IF im = <<>> THEN 0 ELSE Len(im[1])

\* cv2.rotate(img, cv2.ROTATE_90_CLOCKWISE): the left column, read from the
\* bottom up, becomes the top row.
rotate90cw(im) ==
    [y \in 1..Width(im) |-> [x \in 1..Height(im) |-> im[Height(im) + 1 - x][y]]]

\* An encoder that leaves a portrait image as it is.
auto_rotate_never(im) == im

\* `if img.shape[1] < img.shape[0]: img = cv2.rotate(...)`
auto_rotate(im) == IF Width(im) < Height(im) THEN rotate90cw(im) ELSE im

\* The display's resolution, main()'s default "250x122".
device_width == 250
device_height == 122

\* abs(current_ratio - target_ratio) > 0.01 for current = cw/ch and
\* target = tw/th, in whole numbers.
ratio_differs(cw, ch, tw, th) ==
    LET d == cw * th - tw * ch
    IN  100 * (IF d < 0 THEN -d ELSE d) > ch * th

\* The crop of modulate_brw: target_ratio is w / h of the image itself.
crop(im) ==
    LET h == Height(im)
        w == Width(im)
        tw == w
        th == h
    IN  IF ratio_differs(w, h, tw, th)
        THEN IF w * th > tw * h
             THEN LET new_width == (h * tw) \div th
                      x == (w - new_width) \div 2
                  IN  [r \in 1..h |-> SubSeq(im[r], x + 1, x + new_width)]
             ELSE LET new_height == (w * th) \div tw
                      y == (h - new_height) \div 2
                  IN  SubSeq(im, y + 1, y + new_height)
        ELSE im

\* Rows appended so that the height is a multiple of 8.
pad_rows(h) == IF h % 8 # 0 THEN 8 - (h % 8) ELSE 0

\* cv2.copyMakeBorder(img, 0, pad, 0, 0, cv2.BORDER_CONSTANT, value=(0,0,0))
pad_bottom(im) ==
    im \o [r \in 1..pad_rows(Height(im)) |-> [x \in 1..Width(im) |-> <<0, 0, 0>>]]

\* The image the masks are taken from.
normalize(im) == pad_bottom(crop(auto_rotate(im)))

\* cv2.inRange(img, c, c): 255 where the pixel is c, 0 elsewhere.
inRange(im, c) ==
    [y \in 1..Height(im) |-> [x \in 1..Width(im) |-> IF im[y][x] = c THEN 255 ELSE 0]]

\* cv2.bitwise_or of two values that are 0 or 255.
bitwise_or(a, b) == IF a = 255 \/ b = 255 THEN 255 ELSE 0

\* cv2.bitwise_not of an 8-bit value.
bitwise_not(a) == 255 - a

\* bw_bin = white_mask
bw_value(white, red) == white

\* A secondary plane that leaves the red mask out.
rw_value_without_red(white, red) == bitwise_not(white)

\* rw_bin = bitwise_not(bitwise_or(white_mask, red_mask))
rw_value(white, red) == bitwise_not(bitwise_or(white, red))

bw_bin(im) ==
    [y \in 1..Height(im) |-> [x \in 1..Width(im) |->
        bw_value(inRange(im, White)[y][x], inRange(im, Red)[y][x])]]

rw_bin(im) ==
    [y \in 1..Height(im) |-> [x \in 1..Width(im) |->
        rw_value(inRange(im, White)[y][x], inRange(im, Red)[y][x])]]

\* A packing with the topmost row in bit 0.
bit_of_row_lsb(i) == 2 ^ i

\* 1 << (7 - i)
bit_of_row(i) == 2 ^ (7 - i)

\* The byte of _pack_bits for column x and the rows y..y+7 (0-based).
RECURSIVE pack_byte(_, _, _, _)
pack_byte(bin, x, y, i) ==
    IF i = 8 THEN 0
    ELSE (IF y + i < Len(bin) /\ bin[y + i + 1][x + 1] = 255 THEN bit_of_row(i) ELSE 0)
         + pack_byte(bin, x, y, i + 1)

\* range(0, height, 8)
row_groups(height) == (height + 7) \div 8

\* _pack_bits: column by column, top to bottom in groups of 8 rows.
pack_bits(bin) ==
    LET height == Len(bin)
        width == IF bin = <<>> THEN 0 ELSE Len(bin[1])
    IN  Concat([x \in 1..width |->
                 [g \in 1..row_groups(height) |-> pack_byte(bin, x - 1, 8 * (g - 1), 0)]])

\* ImgProcesser.modulate_brw (the preview window aside).
modulate_brw(im) ==
    LET n == normalize(im)
    IN  [bw_data |-> pack_bits(bw_bin(n)),
         rw_data |-> pack_bits(rw_bin(n)),
         width |-> Width(n),
         height |-> Height(n)]

\* The images given to the encoder: every size up to MaxDim x MaxDim, one
\* colour all over but for one pixel.
Images ==
    { [y \in 1..h |-> [x \in 1..w |-> IF x = sx /\ y = sy THEN sc ELSE bg]] :
        <<w, h, sx, sy, bg, sc>> \in
            UNION { {w} \X {h} \X (1..w) \X (1..h) \X Colours \X Colours :
                    <<w, h>> \in (1..MaxDim) \X (1..MaxDim) } }

\* A caller of modulate_brw with an image of its own, as under
\* ImgProcesser.py's __main__.
InitEnc ==
    /\ caller = "encoder"
    /\ dither_method = "none"
    /\ dithered = FALSE
    /\ satisfied = FALSE
    /\ tried_open = FALSE
    /\ pc = "modulate_brw"
    /\ ser_open = FALSE
    /\ bw_data = <<>>
    /\ rw_data = <<>>
    /\ plane = "hs"
    /\ sent = 0
    /\ expected = <<>>
    /\ elapsed = 0
    /\ rx = <<>>
    /\ wire = <<>>
    /\ result = "none"
    /\ receiver = "silent"
    /\ replied = 0
    /\ accum = <<>>
    /\ pending = 0
    /\ acks = <<>>
    /\ failed = "none"
    /\ img \in Images
    /\ out = NoOutput
    /\ NoDither

\* processor.modulate_brw(img)
encode ==
    /\ pc = "modulate_brw"
    /\ out' = modulate_brw(img)
    /\ bw_data' = out'.bw_data
    /\ rw_data' = out'.rw_data
    /\ pc' = "encoded"
    /\ UNCHANGED <<caller, dither_method, dithered, satisfied, tried_open, ser_open,
                   plane, sent, expected, elapsed, rx, wire, result, receiver,
                   replied, accum, pending, acks, failed, img, dithervars>>

NextEnc == encode

SpecEnc == InitEnc /\ [][NextEnc]_vars

\* --------------------------------------------------------------- Dithering
\* Dithering.palettes, in BGR.
palettes ==
    [rw |-> <<White, Red>>, bw |-> <<White, Black>>, rbw |-> <<White, Black, Red>>]

\* The palette a method dithers to.
palette_of(method) ==
    IF method = "_red_white_dither" THEN palettes.rw
    ELSE IF method = "_black_white_dither" THEN palettes.bw
    ELSE palettes.rbw

\* The gray levels of the images that are dithered.
GrayLevels == {0, 91, 159, 168, 255}

\* The longest chain of diffusions into a pixel of a width x height image:
\* along a row, and from the end of a row to the pixel below and left of it.
Depth(width, height) ==
    IF width = 1 THEN height - 1 ELSE (width - 1) + 2 * (height - 1)

\* _floyd_steinberg's float values are held as whole numbers of 1 / Scale:
\* a pixel that n diffusions lead to is a multiple of 1 / 16^n.
Scale == 16 ^ MaxDepth

\* _red_black_white_dither's float values (1.0 is white) are held as whole
\* numbers of 1 / RbwUnit: the red channel after n diffusions is a multiple
\* of 1 / (255 * 32^n), and n is at most 2 in the sizes of RbwSizes.
RbwUnit == 255 * 32 * 32

\* The sizes whose images take every gray level: those of _floyd_steinberg
\* within MaxDepth diffusions, those of _red_black_white_dither within 2.
FsSizes ==
    { s \in (1..(MaxDepth + 1)) \X (1..(MaxDepth + 1)) : Depth(s[1], s[2]) <= MaxDepth }

RbwSizes == { <<1, 1>>, <<2, 1>>, <<3, 1>>, <<1, 2>>, <<1, 3>> }

\* Every image of a size over a set of gray levels: rows of gray values.
GrayImages(size, levels) == [1..size[2] -> [1..size[1] -> levels]]

\* What a Dithering method is called with: images of the small sizes over
\* every gray level, and one-coloured images of every size up to
\* MaxDim x MaxDim whose colour the method's palette holds, so that no
\* error is diffused.
DitherInputs ==
    LET small(m) == UNION { GrayImages(s, GrayLevels) :
                            s \in IF m = "_red_black_white_dither"
                                  THEN RbwSizes ELSE FsSizes }
        flat(m) == UNION { GrayImages(s, {v}) :
                           s \in (1..MaxDim) \X (1..MaxDim),
                           v \in IF m = "_red_white_dither" THEN {255} ELSE {0, 255} }
    IN  UNION { { [method |-> m, gray |-> g] : g \in small(m) \cup flat(m) } :
                m \in DitherMethods }

\* abs()
abs(v) == IF v < 0 THEN -v ELSE v

\* gray_palette: int(0.299 * R + 0.587 * G + 0.114 * B) of each entry, the
\* entry being (B, G, R).
gray_palette(palette) ==
    [i \in 1..Len(palette) |->
        (299 * palette[i][3] + 587 * palette[i][2] + 114 * palette[i][1]) \div 1000]

\* np.argmin(np.abs(gray_palette - old_pixel)): the first index of the
\* least distance (indices from 1 here).
argmin(gp, old_pixel) ==
    CHOOSE i \in 1..Len(gp) :
        /\ \A j \in 1..Len(gp) :
              abs(gp[i] * Scale - old_pixel) <= abs(gp[j] * Scale - old_pixel)
        /\ \A j \in 1..(i - 1) :
              abs(gp[j] * Scale - old_pixel) > abs(gp[i] * Scale - old_pixel)

\* The kernel: (dx, dy, sixteenths of the error), in the order of the code.
kernel == << <<1, 0, 7>>, <<0, 1, 5>>, <<-1, 1, 3>>, <<1, 1, 1>> >>

\* Guards that leave out `x - 1 >= 0`.
fs_guard_wrap(dx, dy, x, y, width, height) ==
    /\ dx = 1 => x + 1 < width
    /\ dy = 1 => y + 1 < height

\* _floyd_steinberg's guards of its four writes: `if x + 1 < width`,
\* `if y + 1 < height`, `if x - 1 >= 0`.
fs_guard(dx, dy, x, y, width, height) ==
    /\ dx = 1 => x + 1 < width
    /\ dy = 1 => y + 1 < height
    /\ dx = -1 => x - 1 >= 0

\* _red_black_white_dither: `if 0 <= nx < width and 0 <= ny < height`
rbw_guard(nx, ny, width, height) ==
    0 <= nx /\ nx < width /\ 0 <= ny /\ ny < height

\* The writes of one iteration: (nx, ny, sixteenths), as the code names them.
fs_targets(x, y, width, height) ==
    LET ks == SelectSeq(kernel, LAMBDA k : fs_guard(k[1], k[2], x, y, width, height))
    IN  [i \in 1..Len(ks) |-> <<x + ks[i][1], y + ks[i][2], ks[i][3]>>]

rbw_targets(x, y, width, height) ==
    LET ks == SelectSeq(kernel, LAMBDA k : rbw_guard(x + k[1], y + k[2], width, height))
    IN  [i \in 1..Len(ks) |-> <<x + ks[i][1], y + ks[i][2], ks[i][3]>>]

\* The element an index of a numpy array names: a negative index counts
\* from the end.
np_index(i, n) == IF i < 0 THEN i + n ELSE i

\* What the writes `img[ny, nx] += amount` of one iteration add to the
\* element (cx, cy); a write is (nx, ny, amount).
RECURSIVE added(_, _, _, _, _)
added(writes, cx, cy, width, height) ==
    IF writes = <<>> THEN 0
    ELSE LET t == Head(writes)
         IN  (IF np_index(t[1], width) = cx /\ np_index(t[2], height) = cy
              THEN t[3] ELSE 0)
             + added(Tail(writes), cx, cy, width, height)

\* np.zeros((height, width, 3))
zeros(width, height) == [y \in 1..height |-> [x \in 1..width |-> <<0, 0, 0>>]]

\* The variables of the serial link, which dithering and encoding leave alone.
linkvars == <<tried_open, ser_open, plane, sent, expected, elapsed, rx, wire,
              result, receiver, replied, accum, pending, acks, failed>>

\* A caller of a Dithering method with a grayscale image, as process_image
\* and main() are, that gives the result to modulate_brw.
InitDither ==
    /\ caller = "dithering"
    /\ \E i \in DitherInputs :
        /\ dither_method = i.method
        /\ gray = i.gray
    /\ dithered = FALSE
    /\ satisfied = FALSE
    /\ tried_open = FALSE
    /\ pc = "process_image"
    /\ ser_open = FALSE
    /\ bw_data = <<>>
    /\ rw_data = <<>>
    /\ plane = "hs"
    /\ sent = 0
    /\ expected = <<>>
    /\ elapsed = 0
    /\ rx = <<>>
    /\ wire = <<>>
    /\ result = "none"
    /\ receiver = "silent"
    /\ replied = 0
    /\ accum = <<>>
    /\ pending = 0
    /\ acks = <<>>
    /\ failed = "none"
    /\ img = <<>>
    /\ out = NoOutput
    /\ fs_img = <<>>
    /\ img_float = <<>>
    /\ output = <<>>
    /\ pos = 0
    /\ loop = NoLoop

\* The call of the method, up to its loop: _floyd_steinberg's
\* `img = image.copy().astype(np.float32)`, _red_black_white_dither's
\* `img_float = img.astype(np.float32) / 255.0` of the gray image as BGR.
process_image ==
    /\ pc = "process_image"
    /\ IF dither_method = "_red_black_white_dither"
       THEN /\ img_float' = [y \in 1..Height(gray) |-> [x \in 1..Width(gray) |->
                               LET v == gray[y][x] * (RbwUnit \div 255)
                               IN  <<v, v, v>>]]
            /\ UNCHANGED fs_img
       ELSE /\ fs_img' = [y \in 1..Height(gray) |-> [x \in 1..Width(gray) |->
                            gray[y][x] * Scale]]
            /\ UNCHANGED img_float
    /\ output' = zeros(Width(gray), Height(gray))
    /\ pos' = 0
    /\ pc' = "dither"
    /\ UNCHANGED <<caller, dither_method, dithered, satisfied, bw_data, rw_data,
                   linkvars, img, out, gray, loop>>

\* quant_error * 7/16 and the like.
fs_share(quant_error, sixteenths) == (quant_error * sixteenths) \div 16

\* One iteration of _floyd_steinberg's loop, at pixel (x, y) in raster order.
floyd_steinberg ==
    /\ pc = "dither"
    /\ dither_method \in {"_black_white_dither", "_red_white_dither"}
    /\ pos < Width(gray) * Height(gray)
    /\ LET width == Width(gray)
           height == Height(gray)
           x == pos % width
           y == pos \div width
           palette == palette_of(dither_method)
           gp == gray_palette(palette)
           old_pixel == fs_img[y + 1][x + 1]
           closest_idx == argmin(gp, old_pixel)
           quant_error == old_pixel - gp[closest_idx] * Scale
           targets == fs_targets(x, y, width, height)
           writes == [i \in 1..Len(targets) |->
                        <<targets[i][1], targets[i][2],
                          fs_share(quant_error, targets[i][3])>>]
       IN  /\ output' = [output EXCEPT ![y + 1][x + 1] = palette[closest_idx]]
           /\ fs_img' = [cy \in 1..height |-> [cx \in 1..width |->
                           fs_img[cy][cx] + added(writes, cx - 1, cy - 1, width, height)]]
           /\ loop' = [x |-> x, y |-> y, old_pixel |-> old_pixel,
                       closest_idx |-> closest_idx, quant_error |-> quant_error,
                       targets |-> targets]
    /\ pos' = pos + 1
    /\ UNCHANGED <<caller, dither_method, dithered, satisfied, bw_data, rw_data,
                   linkvars, img, out, gray, img_float, pc>>

\* max(g, b)
max(g, b) == IF b > g THEN b ELSE g

\* The colours _red_black_white_dither may give a pixel (b, g, r), as it
\* holds them, (0, 0, 1) being red: red when r - max(g, b) > 0.2, else black
\* below a luminance of 0.33 and white above 0.66, else red when
\* r > max(g, b) * 1.2, else black or white as random.random() falls.
rbw_outputs(b, g, r) ==
    LET red == <<0, 0, RbwUnit>>
        black == <<0, 0, 0>>
        white == <<RbwUnit, RbwUnit, RbwUnit>>
        luminance1000 == 299 * r + 587 * g + 114 * b
    IN  IF 5 * (r - max(g, b)) > RbwUnit THEN {red}
        ELSE IF luminance1000 < 330 * RbwUnit THEN {black}
        ELSE IF luminance1000 > 660 * RbwUnit THEN {white}
        ELSE IF 5 * r > 6 * max(g, b) THEN {red}
        ELSE {black, white}

\* (output * 255).astype(np.uint8) of a pixel
to_uint8(o) ==
    <<(o[1] * 255) \div RbwUnit, (o[2] * 255) \div RbwUnit, (o[3] * 255) \div RbwUnit>>

\* One iteration of _red_black_white_dither's loop. The error is the pixel
\* less the colour it was given, channel by channel, in each branch; the red
\* channel's share is red_boost = 1.5 times the others'.
red_black_white_dither ==
    /\ pc = "dither"
    /\ dither_method = "_red_black_white_dither"
    /\ pos < Width(gray) * Height(gray)
    /\ LET width == Width(gray)
           height == Height(gray)
           x == pos % width
           y == pos \div width
           b == img_float[y + 1][x + 1][1]
           g == img_float[y + 1][x + 1][2]
           r == img_float[y + 1][x + 1][3]
           targets == rbw_targets(x, y, width, height)
       IN  \E o \in rbw_outputs(b, g, r) :
            LET error == <<b - o[1], g - o[2], r - o[3]>>
                writes(c) == [i \in 1..Len(targets) |->
                                <<targets[i][1], targets[i][2],
                                  IF c = 3
                                  THEN (error[3] * targets[i][3] * 3) \div 32
                                  ELSE (error[c] * targets[i][3]) \div 16>>]
            IN  /\ output' = [output EXCEPT ![y + 1][x + 1] = o]
                /\ img_float' = [cy \in 1..height |-> [cx \in 1..width |->
                      [c \in 1..3 |-> img_float[cy][cx][c]
                            + added(writes(c), cx - 1, cy - 1, width, height)]]]
                /\ loop' = [x |-> x, y |-> y, b |-> b, g |-> g, r |-> r,
                            error |-> error, targets |-> targets]
    /\ pos' = pos + 1
    /\ UNCHANGED <<caller, dither_method, dithered, satisfied, bw_data, rw_data,
                   linkvars, img, out, gray, fs_img, pc>>

\* `return output` (`return (output * 255).astype(np.uint8)`), and the
\* caller's hand-over of the dithered image to modulate_brw.
dither_return ==
    /\ pc = "dither"
    /\ pos = Width(gray) * Height(gray)
    /\ img' = IF dither_method = "_red_black_white_dither"
              THEN [y \in 1..Height(output) |-> [x \in 1..Width(output) |->
                      to_uint8(output[y][x])]]
              ELSE output
    /\ pc' = "modulate_brw"
    /\ UNCHANGED <<caller, dither_method, dithered, satisfied, bw_data, rw_data,
                   linkvars, out, dithervars>>

NextDither ==
    \/ process_image
    \/ floyd_steinberg
    \/ red_black_white_dither
    \/ dither_return
    \/ encode

SpecDither == InitDither /\ [][NextDither]_vars

\* ---------------------------------------------------------------- main()
sessionvars == <<ser_open, plane, sent, expected, elapsed, rx, wire, result,
                 receiver, replied, accum, pending, acks, failed, tried_open, img, out>>

\* main(): the image is found, read, rotated and resized, or an exception
\* ends the run ("Error loading image").
main_load ==
    /\ pc = "main_load"
    /\ \E ok \in BOOLEAN : pc' = IF ok THEN "main_dither" ELSE "done"
    /\ UNCHANGED <<caller, dither_method, dithered, satisfied, bw_data, rw_data,
                   sessionvars, dithervars>>

\* main(): one pass of the `while not satisfied` loop: the dithering (an
\* exception ends the run), the preview, and the user's answer; an answer
\* other than "1" selects the method for the next pass, and an exception
\* while asking counts as satisfied.
main_dither ==
    /\ pc = "main_dither"
    /\ \/ /\ pc' = "done"
          /\ UNCHANGED <<dithered, satisfied, dither_method>>
       \/ /\ dithered' = TRUE
          /\ \/ /\ satisfied' = TRUE
                /\ pc' = "main_encode"
                /\ UNCHANGED dither_method
             \/ /\ dither_method' \in DitherMethods
                /\ UNCHANGED <<satisfied, pc>>
    /\ UNCHANGED <<caller, bw_data, rw_data, sessionvars, dithervars>>

\* main(): processor.modulate_brw(dithered_img, need_preview=True,
\* dither_mode=...) inside `try: ... except Exception: ... return`, then
\* `if com_port:` (com_port is never empty: `input(...) or "COM3"`).
main_encode ==
    /\ pc = "main_encode"
    /\ IF Binds(main_call_positional, main_call_keywords, modulate_brw_params)
       THEN \/ /\ bw_data' \in Planes
                /\ rw_data' \in Planes
                /\ pc' = "open"
             \/ /\ pc' = "done"
                /\ UNCHANGED <<bw_data, rw_data>>
       ELSE /\ pc' = "done"
            /\ UNCHANGED <<bw_data, rw_data>>
    /\ UNCHANGED <<caller, dither_method, dithered, satisfied, sessionvars, dithervars>>

\* -------------------------------------------------------------- receivers
\* What a receiver that follows the protocol answers to a write: "OK" to
\* the marker, the decimal checksum to a chunk, nothing to a partial write.
Reply(w) ==
    IF Len(w.data) < w.want THEN <<>>
    ELSE IF w.plane = "hs" THEN OK
    ELSE str(checksum(w.data))

\* Where the sender is about to write or is waiting for a response. Bytes
\* that arrive elsewhere are read no sooner than bytes arriving at the next
\* of these places.
Listening == pc \in {"send_img_data", "chunk_loop", "check_response"}

\* A receiver following the protocol answers the oldest unanswered write,
\* after any delay; the "once" receiver answers two writes, the marker and
\* the first chunk, and no more.
ReceiverReply ==
    /\ ser_open
    /\ Listening
    /\ receiver \in {"correct", "once"}
    /\ replied < Len(wire)
    /\ receiver = "once" => replied < 2
    /\ rx' = rx \o Reply(wire[replied + 1])
    /\ replied' = replied + 1
    /\ UNCHANGED <<mainvars, tried_open, pc, ser_open, bw_data, rw_data, plane, sent,
                   expected, elapsed, wire, result, receiver, accum, pending, acks,
                   failed>>

\* A receiver that writes what it likes when it likes.
ReceiverArbitrary ==
    /\ ser_open
    /\ Listening
    /\ receiver = "arbitrary"
    /\ replied < MaxMsgs
    /\ \E m \in RxMsgs : rx' = rx \o m
    /\ replied' = replied + 1
    /\ UNCHANGED <<mainvars, tried_open, pc, ser_open, bw_data, rw_data, plane, sent,
                   expected, elapsed, wire, result, receiver, accum, pending, acks,
                   failed>>

Next ==
    \/ main_load
    \/ main_dither
    \/ main_encode
    \/ open
    \/ send_img_data
    \/ check_response
    \/ send_data_with_checksum
    \/ chunk_loop
    \/ finally_close
    \/ ReceiverReply
    \/ ReceiverArbitrary

Spec == Init /\ [][Next]_vars

\* The steps of send_img_data that the link lets through: every step of the
\* call but an exception raised by a write or a read.
SenderStep ==
    /\ send_img_data \/ check_response \/ send_data_with_checksum \/ chunk_loop
    /\ result' # "raised"

\* The program is one thread of blocking calls: as long as the call has a
\* next statement it goes on to it, and time passes while it sleeps.
SpecLive == Init /\ [][Next]_vars /\ WF_vars(SenderStep)

\* ------------------------------------------------------ what was observed
\* The writes of one plane ("hs": the marker), in order.
WritesOf(p) == SelectSeq(wire, LAMBDA w : w.plane = p)

\* The chunk writes of both planes, in order.
ChunkWrites == SelectSeq(wire, LAMBDA w : w.plane # "hs")

\* The waits that succeeded for one plane ("hs": the handshake).
AcksOf(p) == Len(SelectSeq(acks, LAMBDA a : a = p))

\* Every write put all of its bytes on the link.
WholeWrites == \A i \in 1..Len(wire) : Len(wire[i].data) = wire[i].want

\* The call has ended by returning (True or False), not by an exception.
Returned == pc \in {"finally", "done"} /\ result \in {"True", "False"}

\* The plane's length is no multiple of 16.
BadLength(p) == Len(data_of(p)) % 16 # 0

\* ------------------------------------------------------------------ C1
\* C1: once open() has succeeded, the link is closed when the session has
\* ended, whichever way send_img_data was left (True, False, exception):
\* no terminal state leaves the link open.
C1_LinkClosedAtEnd == pc = "done" => ~ser_open

\* An opened session that ended by an exception out of a write or a read,
\* after the handshake, with the link closed.
C1_Witness ==
    /\ pc = "done"
    /\ tried_open
    /\ result = "raised"
    /\ AcksOf("hs") = 1
    /\ ~ser_open

\* ------------------------------------------------------------------ C2
\* C2: writes are gated by acknowledgments. No chunk is on the link before
\* the handshake wait has succeeded; a plane has at most one chunk written
\* beyond those acknowledged; nothing of the rw plane is written before all
\* of the bw plane is acknowledged; the chunks of a plane go out at offsets
\* 0, 16, 32, ... in this order.
C2_WritesGatedByAcks ==
    /\ ChunkWrites # <<>> => AcksOf("hs") >= 1
    /\ \A p \in {"bw", "rw"} :
        /\ Len(WritesOf(p)) <= AcksOf(p) + 1
        /\ \A i \in 1..Len(WritesOf(p)) : WritesOf(p)[i].off = 16 * (i - 1)
    /\ WritesOf("rw") # <<>> => 16 * AcksOf("bw") = Len(bw_data)
    /\ \A i, j \in 1..Len(wire) :
        (i < j /\ wire[i].plane = "rw") => wire[j].plane = "rw"

\* Both planes under way: the second chunk of the rw plane is on the link.
C2_Witness ==
    /\ Len(WritesOf("bw")) = 2
    /\ Len(WritesOf("rw")) = 2
    /\ AcksOf("rw") = 1

\* ------------------------------------------------------------------ C3
\* C3: with a receiver that never sends a byte, a call that returns has
\* written the marker and nothing else, its handshake wait has failed with
\* the whole timeout elapsed, and it has returned False; no chunk is ever
\* written.
C3_SilentReceiver ==
    receiver = "silent" =>
        /\ ChunkWrites = <<>>
        /\ Returned =>
            /\ result = "False"
            /\ failed = "handshake"
            /\ elapsed = TimeoutTicks
            /\ Len(wire) = 1
            /\ wire[1].plane = "hs"
            /\ WholeWrites => wire[1].data = <<66, 101, 103, 10, 13>>

\* The silent receiver's session, returned from and about to be closed.
C3_Witness ==
    /\ receiver = "silent"
    /\ pc = "finally"
    /\ ser_open
    /\ result = "False"
    /\ WholeWrites

\* ------------------------------------------------------------------ C4
\* The case of C4: the receiver that answers the marker and the first chunk
\* and nothing more, both replies read in time, planes of valid lengths
\* holding at least two chunks, whole writes, and the session over.
C4_Case ==
    /\ receiver = "once"
    /\ pc = "done"
    /\ Returned
    /\ WholeWrites
    /\ Len(acks) >= 2
    /\ ~BadLength("bw") /\ ~BadLength("rw")
    /\ Len(bw_data) + Len(rw_data) >= 32

\* C4 as stated: in that case exactly one chunk (16 bytes) of plane data is
\* observed on the link, the session reports failure and the link is closed.
C4_ExactlyOneChunk ==
    C4_Case =>
        /\ Len(ChunkWrites) = 1
        /\ result = "False"
        /\ ~ser_open

\* C4 as amended: the sender writes the second chunk once the first is
\* acknowledged, so exactly two chunks (32 bytes) are observed; the wait
\* for the second times out, the session reports failure, the link is
\* closed, and no chunk after the second is written.
C4_ExactlyTwoChunks ==
    C4_Case =>
        /\ Len(ChunkWrites) = 2
        /\ \A i \in 1..2 :
            ChunkWrites[i].data = SubSeq(bw_data \o rw_data, 16 * (i - 1) + 1, 16 * i)
        /\ Len(acks) = 2
        /\ result = "False"
        /\ failed = "checksum"
        /\ ~ser_open

\* The case with three chunks in the bw plane's turn still to come: bw
\* holds two chunks and rw two more.
C4_Witness ==
    /\ C4_Case
    /\ Len(bw_data) = 32
    /\ Len(rw_data) = 32

\* ------------------------------------------------------------------ C5
\* A chunk write that put fewer than 16 bytes on the link.
ShortWritten == \E i \in 1..Len(wire) : wire[i].plane # "hs" /\ Len(wire[i].data) # 16

\* C5: no retries. The marker and each chunk are written at most once;
\* once a wait has timed out, a chunk write was short or a length was
\* refused, nothing more is written and the call does not return True; a
\* failure in the bw plane leaves the rw plane unwritten.
C5_NoRetryState ==
    /\ \A i, j \in 1..Len(wire) :
        (wire[i].plane = wire[j].plane /\ wire[i].off = wire[j].off) => i = j
    /\ (failed \in {"handshake", "checksum", "length", "short_write"} \/ ShortWritten) =>
        /\ result # "True"
        /\ Returned => result = "False"
        /\ plane # "rw" => WritesOf("rw") = <<>>

C5_NoRetryStep ==
    (failed \in {"handshake", "checksum", "length", "short_write"} \/ ShortWritten) =>
        wire' = wire

C5_NoRetries == []C5_NoRetryState /\ [][C5_NoRetryStep]_vars

\* A short write in the bw plane after an acknowledged chunk, the call
\* returned from.
C5_Witness ==
    /\ failed = "short_write"
    /\ plane = "bw"
    /\ AcksOf("bw") = 1
    /\ pc = "done"
    /\ Len(rw_data) >= 16

\* ------------------------------------------------------------------ C6
\* C6: a response wait succeeds as soon as the bytes received during it,
\* concatenated in arrival order, contain the expected string, also when
\* the string comes split over several reads: a wait that is still going on
\* has not received the expected string.
C6_AccumulatedMatch ==
    (pc = "check_response" /\ WholeWrites) => ~Contains(accum, expected)

\* ------------------------------------------------------------------ C7
\* C7: a plane whose length is no multiple of 16 has none of its bytes
\* written, padded or not, and the call does not return True.
C7_BadLengthFails ==
    \A p \in {"bw", "rw"} :
        BadLength(p) =>
            /\ WritesOf(p) = <<>>
            /\ result # "True"
            /\ Returned => result = "False"

\* The rw plane refused for its length after the whole bw plane went
\* through.
C7_Witness ==
    /\ BadLength("rw")
    /\ ~BadLength("bw")
    /\ Len(bw_data) = 32
    /\ failed = "length"
    /\ result = "False"
    /\ pc = "done"

\* ------------------------------------------------------------------ C8
\* C8: a run of main() in which the dithering succeeded and the user
\* accepted the preview goes on through modulate_brw to the transfer
\* attempt: when it has ended, a SerialPort has been opened (or the
\* opening tried).
C8_DitheredRunReachesTransfer ==
    (caller = "main" /\ pc = "done" /\ dithered /\ satisfied) => tried_open

\* ------------------------------------------------------------- C9, C10
\* The bit of a packed plane for column x, row y (0-based) of an image of
\* the given height: bit 7 - y mod 8 of byte x * (height / 8) + y div 8.
PlaneBit(data, height, x, y) ==
    (data[x * (height \div 8) + (y \div 8) + 1] \div (2 ^ (7 - (y % 8)))) % 2

PrePadHeight == Height(crop(auto_rotate(img)))

\* C10: the returned height is the smallest multiple of 8 not below the
\* height before padding, the rows above the padding are those of the
\* image, both planes hold width * height / 8 bytes, and the byte at
\* x * (height / 8) + g has bit 7 - i set iff the plane's bit at column x,
\* row 8g + i is set.
C10_PackedLayout ==
    pc = "encoded" =>
        LET n == normalize(img)
            pre == crop(auto_rotate(img))
            H == out.height
            W == out.width
        IN  /\ H % 8 = 0
            /\ H >= PrePadHeight
            /\ H - PrePadHeight < 8
            /\ W = Width(pre)
            /\ SubSeq(n, 1, PrePadHeight) = pre
            /\ Len(out.bw_data) = W * (H \div 8)
            /\ Len(out.rw_data) = W * (H \div 8)
            /\ \A x \in 0..(W - 1) : \A g \in 0..((H \div 8) - 1) : \A i \in 0..7 :
                /\ (out.bw_data[x * (H \div 8) + g + 1] \div (2 ^ (7 - i))) % 2 = 1
                     <=> bw_bin(n)[8 * g + i + 1][x + 1] = 255
                /\ (out.rw_data[x * (H \div 8) + g + 1] \div (2 ^ (7 - i))) % 2 = 1
                     <=> rw_bin(n)[8 * g + i + 1][x + 1] = 255

\* An encoded image of two row groups, seven of its rows padding, with a
\* white pixel in a black image.
C10_Witness ==
    /\ pc = "encoded"
    /\ PrePadHeight = 9
    /\ out.height = 16
    /\ out.width = 9
    /\ \E y \in 1..Height(img) : \E x \in 1..Width(img) : img[y][x] = <<255, 255, 255>>
    /\ \E y \in 1..Height(img) : \E x \in 1..Width(img) : img[y][x] = <<0, 0, 0>>

\* --------------------------------------------------------------------- C11
\* The image of the end-to-end scenario: 2 wide, 8 high, all white, dithered
\* to white and black.
C11_Case ==
    /\ caller = "dithering"
    /\ dither_method = "_black_white_dither"
    /\ gray = [y \in 1..8 |-> [x \in 1..2 |-> 255]]

\* C11 (as stated): the 2x8 all-white image, dithered to white and black and
\* then encoded, yields a primary plane of 2 bytes 0xFF, one per column, and
\* a secondary plane of 2 bytes 0x00.
C11_TwoColumnsOfFF ==
    (C11_Case /\ pc = "encoded") =>
        /\ out.bw_data = <<255, 255>>
        /\ out.rw_data = <<0, 0>>

\* C11 (amended): the 2x8 all-white image, dithered to white and black and
\* then encoded, is rotated to 8 wide and 2 high and padded with 6 black
\* rows to a height of 8: the primary plane is 8 bytes 0xC0, one per column,
\* and the secondary plane 8 bytes 0x3F.
C11_EightColumnsOfC0 ==
    (C11_Case /\ pc = "encoded") =>
        /\ img = [y \in 1..8 |-> [x \in 1..2 |-> White]]
        /\ out.width = 8
        /\ out.height = 8
        /\ out.bw_data = Fill(192, 8)
        /\ out.rw_data = Fill(63, 8)

C11_Witness == C11_Case /\ pc = "encoded" /\ Len(out.bw_data) = 8

\* --------------------------------------------------------------------- C12
\* The colours of a palette.
PaletteColours(method) ==
    { palette_of(method)[i] : i \in 1..Len(palette_of(method)) }

\* The colours of an image.
ColoursOf(im) == { im[y][x] : y \in 1..Height(im), x \in 1..Width(im) }

\* C12: in every mode each pixel the quantizer returns is a colour of the
\* mode's palette, and so is each pixel of the image the masks are taken
\* from, after rotation, crop and padding, the padding rows included.
C12_ExactPalette ==
    (caller = "dithering" /\ pc \in {"modulate_brw", "encoded"}) =>
        /\ ColoursOf(img) \subseteq PaletteColours(dither_method)
        /\ ColoursOf(normalize(img)) \subseteq PaletteColours(dither_method)

\* --------------------------------------------------------------------- C13
\* C13: an image whose ratio, once it is landscape, is more than 1% away
\* from the display's is cropped, on its width if too wide and on its height
\* if too tall, to the display's ratio; an image within 1% is not cropped.
C13_CroppedToTarget ==
    pc = "encoded" =>
        LET r == auto_rotate(img)
        IN  IF ratio_differs(Width(r), Height(r), device_width, device_height)
            THEN IF Width(r) * device_height > device_width * Height(r)
                 THEN out.width < Width(r) /\ PrePadHeight = Height(r)
                 ELSE out.width = Width(r) /\ PrePadHeight < Height(r)
            ELSE out.width = Width(r) /\ PrePadHeight = Height(r)

\* --------------------------------------------------------------------- C14
\* 1000 times the luminance 0.299 R + 0.587 G + 0.114 B of a BGR colour.
Luminance1000(c) == 299 * c[3] + 587 * c[2] + 114 * c[1]

\* The pixel _floyd_steinberg has just been through.
FsVisited ==
    /\ caller = "dithering"
    /\ dither_method \in {"_black_white_dither", "_red_white_dither"}
    /\ pc = "dither"
    /\ pos > 0

\* C14: at every pixel _floyd_steinberg visits, the colour it emits is the
\* palette entry whose luminance is nearest the pixel's current value, the
\* lowest index among equals, and the error it diffuses is the current value
\* less that entry's luminance, with either palette.
C14_NearestByLuminance ==
    FsVisited =>
        LET palette == palette_of(dither_method)
            dist(i) == abs(Luminance1000(palette[i]) * Scale - 1000 * loop.old_pixel)
            nearest == CHOOSE i \in 1..Len(palette) :
                          /\ \A j \in 1..Len(palette) : dist(i) <= dist(j)
                          /\ \A j \in 1..(i - 1) : dist(j) > dist(i)
        IN  /\ output[loop.y + 1][loop.x + 1] = palette[nearest]
            /\ loop.targets # <<>> =>
                 1000 * loop.quant_error
                   = 1000 * loop.old_pixel - Luminance1000(palette[nearest]) * Scale

\* --------------------------------------------------------------------- C15
\* The four neighbours error is diffused to.
Neighbours(x, y) == {<<x + 1, y>>, <<x, y + 1>>, <<x - 1, y + 1>>, <<x + 1, y + 1>>}

\* C15: in both routines, at every pixel, the writes of diffused error go to
\* exactly those of the four neighbours that lie inside the image, none to
\* a coordinate outside it, and each to a pixel later in raster order than
\* the one being processed.
C15_DiffusionInBounds ==
    (caller = "dithering" /\ pos > 0) =>
        LET width == Width(gray)
            height == Height(gray)
            written == { <<loop.targets[i][1], loop.targets[i][2]>> :
                         i \in 1..Len(loop.targets) }
        IN  /\ loop.y * width + loop.x = pos - 1
            /\ written = { n \in Neighbours(loop.x, loop.y) :
                           /\ 0 <= n[1] /\ n[1] < width
                           /\ 0 <= n[2] /\ n[2] < height }
            /\ \A n \in written : n[2] * width + n[1] > loop.y * width + loop.x

\* A left-edge pixel of an image with an inside has been through
\* _floyd_steinberg: three of its neighbours are in the image.
C15_Witness ==
    /\ caller = "dithering"
    /\ dither_method = "_red_white_dither"
    /\ Width(gray) >= 3
    /\ Height(gray) >= 3
    /\ pos > 0
    /\ loop.x = 0
    /\ loop.y = 1
    /\ Len(loop.targets) = 3

\* --------------------------------------------------------------------- C16
\* send_img_data has been called on an open port.
C16_Called == pc = "send_img_data" /\ ser_open

\* The call is over: with True or False or, when a write or a read of the
\* link raised, with that exception.
C16_Ended ==
    /\ pc \in {"finally", "done"}
    /\ \/ result \in {"True", "False"}
       \/ result = "raised" /\ failed = "exception"

\* No wait lasts beyond the timeout; in the chunk loop sent is a multiple
\* of 16 within the plane's length; True is returned only when the
\* handshake and every chunk of both planes were acknowledged.
C16_Bounded ==
    /\ elapsed <= TimeoutTicks
    /\ (pc \in {"chunk_loop", "check_response"} /\ plane # "hs") =>
          /\ sent % 16 = 0
          /\ sent <= Len(data_of(plane))
          /\ pc = "check_response" => sent < Len(data_of(plane))
    /\ result = "True" =>
          /\ acks = <<"hs">> \o [i \in 1..(Len(bw_data) \div 16) |-> "bw"]
                             \o [i \in 1..(Len(rw_data) \div 16) |-> "rw"]
          /\ Len(ChunkWrites) = (Len(bw_data) + Len(rw_data)) \div 16

\* sent changes by 16 per iteration, or to 0 when a plane begins.
C16_SentStep == sent' # sent => (sent' = sent + 16 \/ sent' = 0)

\* C16: whatever the receiver does, as long as time advances every call of
\* send_img_data on an open port ends, with True or False (a link whose
\* write or read raises ends it with that exception): each wait ends when
\* the timeout has elapsed at the latest, sent grows by 16 per iteration
\* within the plane's length, and True needs every acknowledgment.
C16_Terminates ==
    /\ []C16_Bounded
    /\ [][C16_SentStep]_vars
    /\ (C16_Called ~> C16_Ended)

\* A call that ended with True after both planes, of two chunks together,
\* were sent.
C16_Witness ==
    /\ pc = "done"
    /\ result = "True"
    /\ Len(bw_data) + Len(rw_data) >= 32
    /\ receiver = "arbitrary"

\* --------------------------------------------------------------------- C17
\* A step in which the wait for a chunk's checksum succeeds: of the bytes
\* it reads, those that arrived after the chunk was written contain the
\* checksum. (At the wait's first poll the buffer begins with the bytes
\* that were pending when the chunk was written; later polls read bytes that
\* arrived during the wait.)
C17_AckStep ==
    (pc = "check_response" /\ plane # "hs" /\ Len(acks') = Len(acks) + 1
     /\ WholeWrites) =>
        Contains(SubSeq(rx, pending + 1, Len(rx)), expected)

\* C17: a chunk is acknowledged only by bytes sent in reply to it: bytes
\* that were on the link before the chunk was written never satisfy the
\* wait for its checksum, whatever the interleaving.
C17_FreshAck == [][C17_AckStep]_vars

====
